---- MODULE Spec2Model ----
(***************************************************************************)
(* Sliding-window dataset of build-a-llm/dataset_v1.py: GPTDatasetV1 turns *)
(* the token ids of a text into (input, target) windows.  The model keeps  *)
(* the two dataset objects the script builds with identical parameters     *)
(* (dataloader4 and dataloader5), the loop of __init__ one iteration per   *)
(* step, and the two accessors __len__ and __getitem__.                    *)
(***************************************************************************)
EXTENDS Integers, Sequences, FiniteSets, TLC

\* Longest text (in tokens) and largest stride that are explored.
MaxN == 5
MaxStride == 2

\* GPT-2 token ids of the opening of the-verdict.txt, as the expected
\* outputs in the script's comments list them.
Vocab == <<40, 367, 2885, 1464, 1807, 3619, 402, 271, 10899, 2138, 257, 7026>>

\* A text is the sequence of the vocabulary entries it is made of.  The
\* texts explored are the openings of the-verdict.txt (all tokens distinct)
\* and texts that repeat one word (all tokens equal).
Opening(n) == [k \in 1..n |-> k]
Repeated(n) == [k \in 1..n |-> 11]
Texts == {Opening(n) : n \in 0..MaxN} \cup {Repeated(2), Repeated(MaxN)}

\* tokenizer.encode: deterministic, one id per vocabulary entry of the text.
encode(txt) == [k \in 1..Len(txt) |-> Vocab[txt[k]]]

\* Arguments a caller may pass: nothing in __init__ restricts them.
MaxLengths == -1..(MaxN + 1)
Strides == -1..MaxStride
Indices == -1..MaxN

\* The names the script binds datasets to.
DatasetIds == {"dataloader4", "dataloader5"}

VARIABLES
    raw_text,   \* the text read from the-verdict.txt
    dataset,    \* per name: the GPTDatasetV1 object and where its __init__ stands
    ret         \* what the last __len__ / __getitem__ call returned

vars == <<raw_text, dataset, ret>>

\* Python's clamping of a slice bound x for a list of length n.
PyBound(x, n) ==
    IF x < 0 THEN (IF x + n < 0 THEN 0 ELSE x + n)
    ELSE (IF x > n THEN n ELSE x)

\* s[a:b] of a Python list (0-based, half-open, never raises).
PySlice(s, a, b) ==
    LET lo == PyBound(a, Len(s))
        hi == PyBound(b, Len(s))
    IN  IF lo < hi THEN SubSeq(s, lo + 1, hi) ELSE << >>

\* token_ids[i : i + max_length]
input_chunk(token_ids, i, max_length) == PySlice(token_ids, i, i + max_length)

\* Faulty variants of the definitions below (off-by-one bounds, a step of
\* one, a target cut without the shift); the properties must reject them.
range_stop_plus(token_ids, max_length) == Len(token_ids) - max_length + 1
range_stop_minus(token_ids, max_length) == Len(token_ids) - max_length - 1
in_range_inclusive(i, stop, step) == IF step > 0 THEN i <= stop ELSE i >= stop
range_next_one(i, step) == i + 1
target_chunk_unshifted(token_ids, i, max_length) ==
    PySlice(token_ids, i, i + max_length)

\* token_ids[i + 1 : i + max_length + 1]
target_chunk(token_ids, i, max_length) ==
    PySlice(token_ids, i + 1, i + max_length + 1)

\* The stop argument of range(0, len(token_ids) - max_length, stride).
range_stop(token_ids, max_length) == Len(token_ids) - max_length

\* Whether i is still inside range(0, stop, step), step # 0.
in_range(i, stop, step) == IF step > 0 THEN i < stop ELSE i > stop

\* The value range() yields after i.
range_next(i, step) == i + step

Unbound ==
    [pc |-> "unbound", max_length |-> 1, stride |-> 1, token_ids |-> << >>,
     i |-> 0, input_ids |-> << >>, target_ids |-> << >>]

NoRet == [kind |-> "none", obj |-> "none", idx |-> 0, n |-> 0, item |-> << >>]

Init ==
    /\ raw_text \in Texts
    /\ dataset = [d \in DatasetIds |-> Unbound]
    /\ ret = NoRet

\* Variant: the two lists are class attributes shared by every instance, so
\* a new object starts from what the other one holds.
ConstructShared(d, max_length, stride) ==
    /\ \A e \in DatasetIds : dataset[e].pc # "loop"
    /\ \E e \in DatasetIds \ {d} :
           dataset' = [dataset EXCEPT ![d] =
               [pc |-> IF stride = 0 THEN "ValueError" ELSE "loop",
                max_length |-> max_length,
                stride |-> stride,
                token_ids |-> encode(raw_text),
                i |-> 0,
                input_ids |-> dataset[e].input_ids,
                target_ids |-> dataset[e].target_ids]]
    /\ ret' = NoRet
    /\ UNCHANGED raw_text

\* GPTDatasetV1(txt, tokenizer, max_length, stride) up to the creation of the
\* range: the two lists start empty, the text is encoded, and range() raises
\* ValueError when its step is zero.  The script is single-threaded: no
\* construction starts while another one is inside its loop.
Construct(d, max_length, stride) ==
    /\ \A e \in DatasetIds : dataset[e].pc # "loop"
    /\ dataset' = [dataset EXCEPT ![d] =
           [pc |-> IF stride = 0 THEN "ValueError" ELSE "loop",
            max_length |-> max_length,
            stride |-> stride,
            token_ids |-> encode(raw_text),
            i |-> 0,
            input_ids |-> << >>,
            target_ids |-> << >>]]
    /\ ret' = NoRet
    /\ UNCHANGED raw_text

\* Variant: a copy-and-paste slip appends the target chunk to input_ids.
LoopBodyPasteSlip(d) ==
    LET o == dataset[d] IN
    /\ o.pc = "loop"
    /\ in_range(o.i, range_stop(o.token_ids, o.max_length), o.stride)
    /\ dataset' = [dataset EXCEPT ![d] =
           [o EXCEPT
               !.input_ids = Append(Append(o.input_ids,
                                 input_chunk(o.token_ids, o.i, o.max_length)),
                                 target_chunk(o.token_ids, o.i, o.max_length)),
               !.i = range_next(o.i, o.stride)]]
    /\ ret' = NoRet
    /\ UNCHANGED raw_text

\* One iteration of the for loop: both chunks are cut at i and appended.
LoopBody(d) ==
    LET o == dataset[d] IN
    /\ o.pc = "loop"
    /\ in_range(o.i, range_stop(o.token_ids, o.max_length), o.stride)
    /\ dataset' = [dataset EXCEPT ![d] =
           [o EXCEPT
               !.input_ids = Append(o.input_ids,
                                    input_chunk(o.token_ids, o.i, o.max_length)),
               !.target_ids = Append(o.target_ids,
                                     target_chunk(o.token_ids, o.i, o.max_length)),
               !.i = range_next(o.i, o.stride)]]
    /\ ret' = NoRet
    /\ UNCHANGED raw_text

\* The range is exhausted: __init__ returns and the object is usable.
LoopExit(d) ==
    LET o == dataset[d] IN
    /\ o.pc = "loop"
    /\ ~ in_range(o.i, range_stop(o.token_ids, o.max_length), o.stride)
    /\ dataset' = [dataset EXCEPT ![d] = [o EXCEPT !.pc = "done"]]
    /\ ret' = NoRet
    /\ UNCHANGED raw_text

\* len(dataset)
DunderLen(d) ==
    /\ dataset[d].pc = "done"
    /\ ret' = [kind |-> "len", obj |-> d, idx |-> 0,
               n |-> Len(dataset[d].input_ids), item |-> << >>]
    /\ UNCHANGED <<raw_text, dataset>>

\* dataset[idx]: Python list indexing accepts -len .. len-1 and raises
\* IndexError otherwise.
DunderGetItem(d, idx) ==
    LET o == dataset[d]
        n == Len(o.input_ids)
        m == Len(o.target_ids)
        at(k, len) == IF k < 0 THEN k + len + 1 ELSE k + 1
    IN
    /\ o.pc = "done"
    /\ ret' = IF idx >= -n /\ idx < n /\ idx >= -m /\ idx < m
              THEN [kind |-> "item", obj |-> d, idx |-> idx, n |-> 0,
                    item |-> <<o.input_ids[at(idx, n)], o.target_ids[at(idx, m)]>>]
              ELSE [kind |-> "IndexError", obj |-> d, idx |-> idx, n |-> 0,
                    item |-> << >>]
    /\ UNCHANGED <<raw_text, dataset>>

Next ==
    \/ \E d \in DatasetIds, max_length \in MaxLengths, stride \in Strides :
           Construct(d, max_length, stride)
    \/ \E d \in DatasetIds : LoopBody(d)
    \/ \E d \in DatasetIds : LoopExit(d)
    \/ \E d \in DatasetIds : DunderLen(d)
    \/ \E d \in DatasetIds, idx \in Indices : DunderGetItem(d, idx)

Spec == Init /\ [][Next]_vars

(***************************************************************************)
(* Properties.                                                             *)
(***************************************************************************)

\* The parameter domain of the sampler: both arguments positive.
ValidParams(o) == o.max_length >= 1 /\ o.stride >= 1

\* __init__ has entered its loop (and possibly returned).
Started(o) == o.pc \in {"loop", "done"}

NTokens(o) == Len(o.token_ids)

\* Start offset of the k-th sample (k from 1) of a range that begins at 0.
StartOf(o, k) == (k - 1) * o.stride

C2_SampleCount ==
    \A d \in DatasetIds :
        LET o == dataset[d]
            N == NTokens(o)
        IN  (o.pc = "done" /\ ValidParams(o) /\ N >= 1) =>
                Len(o.input_ids) =
                    IF N > o.max_length
                    THEN ((N - o.max_length - 1) \div o.stride) + 1
                    ELSE 0

C2_Witness ==
    \E d \in DatasetIds :
        LET o == dataset[d] IN
        /\ o.pc = "done"
        /\ ValidParams(o)
        /\ o.stride >= 2
        /\ NTokens(o) > o.max_length
        /\ (NTokens(o) - o.max_length - 1) % o.stride # 0
        /\ Len(o.input_ids) >= 2

\* C3: over positive max_length and stride, every sample built so far starts
\* at an offset with 0 <= start and start + max_length <= N - 1, so neither
\* window reads outside 0..N-1 and neither is shorter than max_length.
C3_WindowsStayInside ==
    \A d \in DatasetIds :
        LET o == dataset[d] IN
        (Started(o) /\ ValidParams(o)) =>
            /\ \A k \in 1..Len(o.input_ids) :
                   /\ 0 <= StartOf(o, k)
                   /\ StartOf(o, k) + o.max_length <= NTokens(o) - 1
                   /\ Len(o.input_ids[k]) = o.max_length
            /\ \A k \in 1..Len(o.target_ids) :
                   Len(o.target_ids[k]) = o.max_length
            \* the sample the loop is about to build is inside as well
            /\ (o.pc = "loop" /\ ENABLED LoopBody(d)) =>
                   (0 <= o.i /\ o.i + o.max_length <= NTokens(o) - 1)

C3_Witness ==
    \E d \in DatasetIds :
        LET o == dataset[d] IN
        /\ o.pc = "done"
        /\ ValidParams(o)
        /\ Len(o.input_ids) >= 1
        \* the last sample ends exactly at the last token
        /\ StartOf(o, Len(o.input_ids)) + o.max_length = NTokens(o) - 1

\* C4 (as claimed): a construction with max_length <= 0 or stride <= 0 fails
\* at construction time and builds no sample.
C4_InvalidParameterRaised ==
    \A d \in DatasetIds :
        LET o == dataset[d] IN
        (o.pc # "unbound" /\ (o.max_length <= 0 \/ o.stride <= 0)) =>
            /\ o.pc # "done"
            /\ o.input_ids = << >>
            /\ o.target_ids = << >>

\* C5: for positive max_length and stride, max_length >= N never raises and
\* yields no sample; max_length = N - 1 yields exactly the sample that
\* starts at 0, whatever the stride.
C5_Boundaries ==
    \A d \in DatasetIds :
        LET o == dataset[d]
            N == NTokens(o)
        IN  (o.pc # "unbound" /\ ValidParams(o)) =>
                /\ (o.max_length >= N) =>
                       /\ o.pc \in {"loop", "done"}
                       /\ o.input_ids = << >>
                       /\ o.target_ids = << >>
                       /\ (o.pc = "loop" => ENABLED LoopExit(d))
                /\ (o.max_length = N - 1 /\ o.pc = "done") =>
                       /\ Len(o.input_ids) = 1
                       /\ Len(o.target_ids) = 1
                       /\ o.input_ids[1] = SubSeq(o.token_ids, 1, N - 1)
                       /\ o.target_ids[1] = SubSeq(o.token_ids, 2, N)

C5_Witness ==
    \E d, e \in DatasetIds :
        /\ dataset[d].pc = "done" /\ ValidParams(dataset[d])
        /\ dataset[d].max_length >= NTokens(dataset[d])
        /\ dataset[e].pc = "done" /\ ValidParams(dataset[e])
        /\ dataset[e].max_length = NTokens(dataset[e]) - 1
        /\ dataset[e].stride >= 2

\* C6: over positive max_length and stride, the k-th sample (from 0) is the
\* window that starts at k * stride, the loop index always stands at the
\* start of the next sample, and a finished construction holds a sample for
\* every multiple of stride below N - max_length.
C6_StartsAdvanceByStride ==
    \A d \in DatasetIds :
        LET o == dataset[d]
            N == NTokens(o)
            cnt == Len(o.input_ids)
        IN  (Started(o) /\ ValidParams(o)) =>
                /\ o.i = cnt * o.stride
                /\ \A k \in 0..(cnt - 1) :
                       /\ k * o.stride + o.max_length <= N
                       /\ o.input_ids[k + 1] =
                              SubSeq(o.token_ids, k * o.stride + 1,
                                     k * o.stride + o.max_length)
                       /\ \A h \in 0..(k - 1) : h * o.stride < k * o.stride
                /\ (o.pc = "done") =>
                       \A s \in 0..N :
                           (s % o.stride = 0 /\ s < N - o.max_length) =>
                               (s \div o.stride) < cnt

\* The worked example max_length = 2, stride = 2 on the-verdict.txt.
C6_Witness ==
    \E d \in DatasetIds :
        LET o == dataset[d] IN
        /\ o.pc = "done"
        /\ o.max_length = 2
        /\ o.stride = 2
        /\ Len(o.input_ids) >= 2
        /\ o.input_ids[1] = <<40, 367>>
        /\ o.target_ids[1] = <<367, 2885>>
        /\ o.input_ids[2] = <<2885, 1464>>
        /\ o.target_ids[2] = <<1464, 1807>>

\* C7: two finished constructions from the same tokens, max_length and
\* stride hold the same samples, whatever was constructed before or between
\* them.
C7_Deterministic ==
    \A d, e \in DatasetIds :
        (/\ dataset[d].pc = "done"
         /\ dataset[e].pc = "done"
         /\ dataset[d].token_ids = dataset[e].token_ids
         /\ dataset[d].max_length = dataset[e].max_length
         /\ dataset[d].stride = dataset[e].stride) =>
            /\ Len(dataset[d].input_ids) = Len(dataset[e].input_ids)
            /\ dataset[d].input_ids = dataset[e].input_ids
            /\ dataset[d].target_ids = dataset[e].target_ids

C7_Witness ==
    \E d, e \in DatasetIds :
        /\ d # e
        /\ dataset[d].pc = "done"
        /\ dataset[e].pc = "done"
        /\ dataset[d].max_length = dataset[e].max_length
        /\ dataset[d].stride = dataset[e].stride
        /\ Len(dataset[d].input_ids) >= 2

\* C8, state part: the two lists always have the same length; __len__
\* returns the number of samples; __getitem__(idx), 0 <= idx < len, returns
\* the input and the target cut at the same start, and does not raise.
C8_State ==
    /\ \A d \in DatasetIds :
           Len(dataset[d].input_ids) = Len(dataset[d].target_ids)
    /\ (ret.kind = "len") =>
           /\ ret.n = Len(dataset[ret.obj].input_ids)
           /\ ret.n = Len(dataset[ret.obj].target_ids)
    /\ (ret.kind = "item" /\ ret.idx >= 0) =>
           LET o == dataset[ret.obj]
               start == ret.idx * o.stride
           IN  /\ ret.idx < Len(o.input_ids)
               /\ ret.item = <<input_chunk(o.token_ids, start, o.max_length),
                               target_chunk(o.token_ids, start, o.max_length)>>
    /\ (ret.kind = "IndexError") =>
           ~ (0 <= ret.idx /\ ret.idx < Len(dataset[ret.obj].input_ids))

\* C8, step part: a __len__ or __getitem__ call changes no dataset.
C8_Step ==
    (ret'.kind \in {"len", "item", "IndexError"}) => (dataset' = dataset)

\* C8: the lists stay paired, and len() is stable under the accessors.
C8_PairedAndStable == [] C8_State /\ [][C8_Step]_vars

C8_Witness ==
    /\ ret.kind = "item"
    /\ ret.idx >= 1
    /\ Len(ret.item[1]) >= 2
    /\ \E e \in DatasetIds : dataset[e].pc = "done" /\ e # ret.obj

\* C10: for N > max_length >= 1 and 1 <= stride <= max_length, the input
\* windows of a finished construction cover every token index from 0 to
\* last_start + max_length - 1 (exactly once when stride = max_length), and
\* the indices in no input window are the last 1..stride ones.
C10_Coverage ==
    \A d \in DatasetIds :
        LET o == dataset[d]
            N == NTokens(o)
            cnt == Len(o.input_ids)
            last == (cnt - 1) * o.stride
            Holds(k, p) ==
                /\ StartOf(o, k) <= p
                /\ p < StartOf(o, k) + Len(o.input_ids[k])
                /\ o.input_ids[k][p - StartOf(o, k) + 1] = o.token_ids[p + 1]
            Covering(p) == {k \in 1..cnt : Holds(k, p)}
        IN  (/\ o.pc = "done"
             /\ N > o.max_length /\ o.max_length >= 1
             /\ 1 <= o.stride /\ o.stride <= o.max_length) =>
                /\ cnt >= 1
                /\ \A p \in 0..(last + o.max_length - 1) :
                       /\ p < N
                       /\ Cardinality(Covering(p)) >= 1
                       /\ (o.stride = o.max_length) =>
                              Cardinality(Covering(p)) = 1
                /\ \A p \in (last + o.max_length)..(N - 1) : Covering(p) = {}
                /\ N - (last + o.max_length) >= 1
                /\ N - (last + o.max_length) <= o.stride

C10_Witness ==
    \E d, e \in DatasetIds :
        /\ dataset[d].pc = "done" /\ dataset[e].pc = "done"
        \* disjoint windows that leave the last stride tokens out
        /\ dataset[d].max_length = 2 /\ dataset[d].stride = 2
        /\ NTokens(dataset[d]) =
               StartOf(dataset[d], Len(dataset[d].input_ids)) + 2 + 2
        \* overlapping windows that leave one token out
        /\ dataset[e].max_length = 2 /\ dataset[e].stride = 1
        /\ Len(dataset[e].input_ids) >= 2

====
